---- MODULE Spec2Model ----
(***************************************************************************)
(* A model of image_to_c_array.py: the format registry, the pixel encoder  *)
(* (convert_image_to_format), the identifier sanitizer and the header      *)
(* renderer (generate_c_header), and the control flow of a conversion run  *)
(* (main -> generate_c_header) with the points at which a step can fail.   *)
(*                                                                         *)
(* Text is modelled as a sequence of Unicode code points (integers).       *)
(***************************************************************************)
EXTENDS Integers, Sequences, FiniteSets, TLC

VARIABLES
    entry,            \* the function the run was entered through
    pc,               \* position of the run
    image,            \* the decoded RGBA image: [size |-> <<w, h>>, pixels |-> rows]
    format_name,      \* the format identifier passed in
    base_name,        \* file name of the input without directory and extension
    image_opened,     \* Image.open(image_path) has returned an image
    byte_data,        \* the encoder's output
    header_content,   \* the rendered header (see RenderHeader)
    out_file,         \* what the output path holds
    error,            \* the exception or diagnostic that ended the run, or "none"
    exit_status       \* "running", or how the run ends: the status asked of the
                      \* interpreter at pc = "py_exit", the final one at pc = "done"

vars == <<entry, pc, image, format_name, base_name, image_opened, byte_data,
          header_content, out_file, error, exit_status>>

(***************************************************************************)
(* Bounds of the model.                                                    *)
(***************************************************************************)
MaxWidth == 2
MaxHeight == 2
MaxNameLen == 3

(***************************************************************************)
(* Format Registry                                                         *)
(***************************************************************************)
FormatNames == {"rgb565", "bgr565", "argb8888", "rgba8888", "rgb888", "bgr888"}

\* rgb888 and bgr888 registered with 2 bytes per pixel.
MutFORMATS ==
    [f \in FormatNames |->
        [bytes_per_pixel |-> IF f \in {"rgb565", "bgr565", "rgb888", "bgr888"} THEN 2 ELSE 4,
         vg_lite_format  |-> f,
         description     |-> f]]

FORMATS ==
    [f \in FormatNames |->
        [bytes_per_pixel |->
            CASE f = "rgb565"   -> 2
              [] f = "bgr565"   -> 2
              [] f = "argb8888" -> 4
              [] f = "rgba8888" -> 4
              [] f = "rgb888"   -> 3
              [] f = "bgr888"   -> 3,
         vg_lite_format |->
            CASE f = "rgb565"   -> "VG_LITE_RGB565"
              [] f = "bgr565"   -> "VG_LITE_BGR565"
              [] f = "argb8888" -> "VG_LITE_ARGB8888"
              [] f = "rgba8888" -> "VG_LITE_RGBA8888"
              [] f = "rgb888"   -> "VG_LITE_RGB888"
              [] f = "bgr888"   -> "VG_LITE_BGR888",
         description |->
            CASE f = "rgb565"   -> "RGB565 (16-bit, 5-6-5)"
              [] f = "bgr565"   -> "BGR565 (16-bit, 5-6-5)"
              [] f = "argb8888" -> "ARGB8888 (32-bit, 8-8-8-8)"
              [] f = "rgba8888" -> "RGBA8888 (32-bit, 8-8-8-8)"
              [] f = "rgb888"   -> "RGB888 (24-bit, 8-8-8)"
              [] f = "bgr888"   -> "BGR888 (24-bit, 8-8-8)"]]

(***************************************************************************)
(* Python's integer operators >>, <<, & and | on non-negative integers.    *)
(***************************************************************************)
ShiftR(x, n) == x \div (2 ^ n)

ShiftL(x, n) == x * (2 ^ n)

RECURSIVE BitAnd(_, _)
BitAnd(a, b) ==
    IF a = 0 \/ b = 0 THEN 0
    ELSE (a % 2) * (b % 2) + 2 * BitAnd(a \div 2, b \div 2)

RECURSIVE BitOr(_, _)
BitOr(a, b) ==
    IF a = 0 THEN b
    ELSE IF b = 0 THEN a
    ELSE (IF a % 2 = 1 \/ b % 2 = 1 THEN 1 ELSE 0) + 2 * BitOr(a \div 2, b \div 2)

(***************************************************************************)
(* Pixel Encoder                                                           *)
(***************************************************************************)
rgb_to_rgb565(r, g, b) ==
    LET r5 == BitAnd(ShiftR(r, 3), 31)
        g6 == BitAnd(ShiftR(g, 2), 63)
        b5 == BitAnd(ShiftR(b, 3), 31)
    IN  BitOr(BitOr(ShiftL(r5, 11), ShiftL(g6, 5)), b5)

\* The fields in the order of rgb565.
Mut_rgb_to_bgr565(r, g, b) ==
    LET r5 == BitAnd(ShiftR(r, 3), 31)
        g6 == BitAnd(ShiftR(g, 2), 63)
        b5 == BitAnd(ShiftR(b, 3), 31)
    IN  BitOr(BitOr(ShiftL(r5, 11), ShiftL(g6, 5)), b5)

rgb_to_bgr565(r, g, b) ==
    LET r5 == BitAnd(ShiftR(r, 3), 31)
        g6 == BitAnd(ShiftR(g, 2), 63)
        b5 == BitAnd(ShiftR(b, 3), 31)
    IN  BitOr(BitOr(ShiftL(b5, 11), ShiftL(g6, 5)), r5)

\* The byte orders of the 8888 and 888 formats exchanged.
MutPixelBytes(pixel, fmt) ==
    LET r == pixel[1]
        g == pixel[2]
        b == pixel[3]
        a == pixel[4]
    IN  CASE fmt = "rgb565" ->
               LET rgb565_val == rgb_to_rgb565(r, g, b)
               IN  <<BitAnd(rgb565_val, 255), BitAnd(ShiftR(rgb565_val, 8), 255)>>
          [] fmt = "bgr565" ->
               LET bgr565_val == rgb_to_bgr565(r, g, b)
               IN  <<BitAnd(bgr565_val, 255), BitAnd(ShiftR(bgr565_val, 8), 255)>>
          [] fmt = "argb8888" -> <<r, g, b, a>>
          [] fmt = "rgba8888" -> <<a, r, g, b>>
          [] fmt = "rgb888"   -> <<b, g, r>>
          [] fmt = "bgr888"   -> <<r, g, b>>

\* The bytes one pixel <<r, g, b, a>> appends to byte_data in the branch of
\* format_name.
PixelBytes(pixel, fmt) ==
    LET r == pixel[1]
        g == pixel[2]
        b == pixel[3]
        a == pixel[4]
    IN  CASE fmt = "rgb565" ->
               LET rgb565_val == rgb_to_rgb565(r, g, b)
               IN  <<BitAnd(rgb565_val, 255), BitAnd(ShiftR(rgb565_val, 8), 255)>>
          [] fmt = "bgr565" ->
               LET bgr565_val == rgb_to_bgr565(r, g, b)
               IN  <<BitAnd(bgr565_val, 255), BitAnd(ShiftR(bgr565_val, 8), 255)>>
          [] fmt = "argb8888" -> <<a, r, g, b>>
          [] fmt = "rgba8888" -> <<r, g, b, a>>
          [] fmt = "rgb888"   -> <<r, g, b>>
          [] fmt = "bgr888"   -> <<b, g, r>>

\* for pixel in row: ...
RECURSIVE EncodeRow(_, _)
EncodeRow(row, fmt) ==
    IF row = <<>> THEN <<>>
    ELSE PixelBytes(Head(row), fmt) \o EncodeRow(Tail(row), fmt)

\* The rows walked from the last to the first.
RECURSIVE MutEncodeRows(_, _)
MutEncodeRows(pixels, fmt) ==
    IF pixels = <<>> THEN <<>>
    ELSE MutEncodeRows(Tail(pixels), fmt) \o EncodeRow(Head(pixels), fmt)

\* for row in pixels: ...
RECURSIVE EncodeRows(_, _)
EncodeRows(pixels, fmt) ==
    IF pixels = <<>> THEN <<>>
    ELSE EncodeRow(Head(pixels), fmt) \o EncodeRows(Tail(pixels), fmt)

\* The result of a call: the exception raised ("none" when it returns) and the
\* list returned.
convert_image_to_format(img, fmt) ==
    IF fmt \notin DOMAIN FORMATS
    THEN [raised |-> "ValueError: Unsupported format", byte_data |-> <<>>]
    ELSE [raised |-> "none", byte_data |-> EncodeRows(img.pixels, fmt)]

(***************************************************************************)
(* Identifier Sanitizer: str.upper(), str.lower() and str.replace() on     *)
(* sequences of code points.  The case mappings are Python's for ASCII and *)
(* for U+00DF, U+0130 and U+0307, the code points NameAlphabet and their   *)
(* images contain.                                                         *)
(***************************************************************************)
PyUpperChar(c) ==
    IF c \in 97..122 THEN <<c - 32>>
    ELSE IF c = 223 THEN <<83, 83>>
    ELSE <<c>>

PyLowerChar(c) ==
    IF c \in 65..90 THEN <<c + 32>>
    ELSE IF c = 304 THEN <<105, 775>>
    ELSE <<c>>

RECURSIVE str_upper(_)
str_upper(s) ==
    IF s = <<>> THEN <<>> ELSE PyUpperChar(Head(s)) \o str_upper(Tail(s))

RECURSIVE str_lower(_)
str_lower(s) ==
    IF s = <<>> THEN <<>> ELSE PyLowerChar(Head(s)) \o str_lower(Tail(s))

\* s.replace(old, new) for one-character old and new
str_replace(s, old, new) ==
    [i \in 1..Len(s) |-> IF s[i] = old THEN new ELSE s[i]]

\* Only '-' is replaced.
MutSanitize(name) ==
    [macro_prefix |-> str_replace(str_upper(name), 45, 95),
     array_name   |-> str_replace(str_lower(name), 45, 95)]

\* macro_prefix and array_name of generate_c_header
Sanitize(name) ==
    [macro_prefix |-> str_replace(str_replace(str_upper(name), 45, 95), 32, 95),
     array_name   |-> str_replace(str_replace(str_lower(name), 45, 95), 32, 95)]

(***************************************************************************)
(* Header Renderer                                                         *)
(***************************************************************************)
HexDigit(d) == IF d < 10 THEN 48 + d ELSE 55 + d

RECURSIVE HexUpper(_)
HexUpper(n) ==
    IF n < 16 THEN <<HexDigit(n)>>
    ELSE HexUpper(n \div 16) \o <<HexDigit(n % 16)>>

\* f"0x{byte:02X}"
FormatHexByte(byte) ==
    LET h == HexUpper(byte)
    IN  <<48, 120>> \o (IF Len(h) < 2 THEN <<48>> \o h ELSE h)

\* ', '.join(hex_values)
RECURSIVE JoinHex(_)
JoinHex(line_data) ==
    IF line_data = <<>> THEN <<>>
    ELSE IF Len(line_data) = 1 THEN FormatHexByte(line_data[1])
    ELSE FormatHexByte(Head(line_data)) \o <<44, 32>> \o JoinHex(Tail(line_data))

Min(a, b) == IF a < b THEN a ELSE b

\* The loop stopping one row short: range(0, len(byte_data) - num_bytes_in_row,
\* num_bytes_in_row).
MutArrayBodyShort(data, num_bytes_in_row) ==
    LET RECURSIVE from(_)
        from(i) ==
            IF i >= Len(data) - num_bytes_in_row THEN <<>>
            ELSE LET line_data == SubSeq(data, i + 1, Min(i + num_bytes_in_row, Len(data)))
                 IN  (IF i = 0 THEN <<10, 32, 32, 32, 32>>
                               ELSE <<44, 10, 32, 32, 32, 32>>)
                     \o JoinHex(line_data) \o from(i + num_bytes_in_row)
    IN  from(0)

\* Rows of a fixed 16 bytes.
MutArrayBody(data, num_bytes_in_row) ==
    LET RECURSIVE from(_)
        from(i) ==
            IF i >= Len(data) THEN <<>>
            ELSE LET line_data == SubSeq(data, i + 1, Min(i + 16, Len(data)))
                 IN  (IF i = 0 THEN <<10, 32, 32, 32, 32>>
                               ELSE <<44, 10, 32, 32, 32, 32>>)
                     \o JoinHex(line_data) \o from(i + 16)
    IN  from(0)

\* for i in range(0, len(byte_data), num_bytes_in_row): the text appended to
\* header_content, "\n    <row>" for the first row and ",\n    <row>" after it.
ArrayBody(data, num_bytes_in_row) ==
    LET RECURSIVE from(_)
        from(i) ==
            IF i >= Len(data) THEN <<>>
            ELSE LET line_data == SubSeq(data, i + 1, Min(i + num_bytes_in_row, Len(data)))
                 IN  (IF i = 0 THEN <<10, 32, 32, 32, 32>>
                               ELSE <<44, 10, 32, 32, 32, 32>>)
                     \o JoinHex(line_data) \o from(i + num_bytes_in_row)
    IN  from(0)

\* header_content before anything is rendered
EmptyHeader ==
    [macro_prefix |-> <<>>, array_name |-> <<>>, description |-> "",
     IMG_WIDTH |-> 0, IMG_HEIGHT |-> 0, IMG_BYTES_PER_PIXEL |-> 0,
     IMG_FORMAT |-> "", body |-> <<>>]

\* _IMG_HEIGHT rendered from the width.
MutRenderHeader(img, fmt, name, data) ==
    LET width           == img.size[1]
        format_info     == FORMATS[fmt]
        bytes_per_pixel == format_info.bytes_per_pixel
        names           == Sanitize(name)
    IN  [macro_prefix        |-> names.macro_prefix,
         array_name          |-> names.array_name,
         description         |-> format_info.description,
         IMG_WIDTH           |-> width,
         IMG_HEIGHT          |-> width,
         IMG_BYTES_PER_PIXEL |-> bytes_per_pixel,
         IMG_FORMAT          |-> format_info.vg_lite_format,
         body                |-> ArrayBody(data, width * bytes_per_pixel)]

\* header_content: the values substituted into the template, and the array
\* body between "{" and "\n};".  The macros _IMG_STRIDE and
\* _IMG_PIXEL_DATA_SIZE are products of the macros held here.
RenderHeader(img, fmt, name, data) ==
    LET width           == img.size[1]
        height          == img.size[2]
        format_info     == FORMATS[fmt]
        bytes_per_pixel == format_info.bytes_per_pixel
        names           == Sanitize(name)
    IN  [macro_prefix        |-> names.macro_prefix,
         array_name          |-> names.array_name,
         description         |-> format_info.description,
         IMG_WIDTH           |-> width,
         IMG_HEIGHT          |-> height,
         IMG_BYTES_PER_PIXEL |-> bytes_per_pixel,
         IMG_FORMAT          |-> format_info.vg_lite_format,
         body                |-> ArrayBody(data, width * bytes_per_pixel)]

\* The values the C preprocessor gives the two derived macros.
IMG_STRIDE(h) == h.IMG_WIDTH * h.IMG_BYTES_PER_PIXEL

IMG_PIXEL_DATA_SIZE(h) == h.IMG_WIDTH * h.IMG_HEIGHT * h.IMG_BYTES_PER_PIXEL

(***************************************************************************)
(* The inputs of a run.                                                    *)
(***************************************************************************)
\* Pixels <<R, G, B, A>> of the images of more than one pixel.
GridPixels == {<<255, 0, 0, 255>>, <<0, 255, 0, 128>>}

\* Pixels of the one-pixel images.
SinglePixels ==
    {<<17, 34, 51, 68>>, <<17, 34, 51, 0>>, <<0, 0, 0, 0>>, <<255, 255, 255, 255>>,
     <<7, 3, 7, 200>>, <<8, 4, 8, 1>>, <<200, 100, 50, 25>>, <<129, 66, 36, 90>>}

\* The width x height images with pixels in P, rows first as np.array(image) is.
Grids(w, h, P) ==
    {[size |-> <<w, h>>, pixels |-> p] : p \in [1..h -> [1..w -> P]]}

Images ==
    UNION {Grids(w, h, GridPixels) : w \in 1..MaxWidth, h \in 1..MaxHeight}
    \cup Grids(1, 1, SinglePixels)

\* Format identifiers a caller may pass: the registry's and one outside it.
FormatArgs == FormatNames \cup {"rgb666"}

\* "my-Logo 1"
SampleNames == {<<109, 121, 45, 76, 111, 103, 111, 32, 49>>}

Entries == {"main", "generate_c_header", "convert_image_to_format"}

Init ==
    /\ entry \in Entries
    /\ pc = "start"
    /\ image \in Images
    /\ format_name \in FormatArgs
    /\ base_name \in SampleNames
    /\ image_opened = FALSE
    /\ byte_data = <<>>
    /\ header_content = EmptyHeader
    /\ out_file \in {"absent", "previous"}
    /\ error = "none"
    /\ exit_status = "running"

inputs == <<entry, image, format_name, base_name>>

(***************************************************************************)
(* main                                                                    *)
(***************************************************************************)
\* parser.parse_args(): --format has choices=list(FORMATS.keys()), and an
\* argument outside them ends the process with status 2.
MainParseArgs ==
    /\ entry = "main" /\ pc = "start"
    /\ IF format_name \in DOMAIN FORMATS
       THEN /\ pc' = "main_isfile"
            /\ UNCHANGED <<error, exit_status>>
       ELSE /\ pc' = "py_exit"
            /\ error' = "argparse: invalid choice"
            /\ exit_status' = "exit 2"
    /\ UNCHANGED <<inputs, image_opened, byte_data, header_content, out_file>>

\* os.path.isfile(args.input) is False
MainInputNotFound ==
    /\ pc = "main_isfile"
    /\ pc' = "py_exit"
    /\ error' = "InputNotFound"
    /\ exit_status' = "exit 1"
    /\ UNCHANGED <<inputs, image_opened, byte_data, header_content, out_file>>

\* os.path.isfile(args.input) is True: generate_c_header is called
MainCallGenerate ==
    /\ pc = "main_isfile"
    /\ pc' = "gch_open"
    /\ UNCHANGED <<inputs, image_opened, byte_data, header_content, out_file,
                   error, exit_status>>

(***************************************************************************)
(* generate_c_header                                                       *)
(***************************************************************************)
\* generate_c_header called by another caller than main
EnterGenerate ==
    /\ entry = "generate_c_header" /\ pc = "start"
    /\ pc' = "gch_open"
    /\ UNCHANGED <<inputs, image_opened, byte_data, header_content, out_file,
                   error, exit_status>>

\* an exception inside the try block
Raise(e) ==
    /\ pc' = "gch_except"
    /\ error' = e

OpenImageOk ==
    /\ pc = "gch_open"
    /\ image_opened' = TRUE
    /\ pc' = "gch_lookup"
    /\ UNCHANGED <<inputs, byte_data, header_content, out_file, error, exit_status>>

OpenImageFails ==
    /\ pc = "gch_open"
    /\ Raise("ImageDecodeFailure")
    /\ UNCHANGED <<inputs, image_opened, byte_data, header_content, out_file, exit_status>>

\* format_info = FORMATS[format_name]
LookupFormat ==
    /\ pc = "gch_lookup"
    /\ IF format_name \in DOMAIN FORMATS
       THEN pc' = "gch_convert" /\ UNCHANGED error
       ELSE Raise("KeyError")
    /\ UNCHANGED <<inputs, image_opened, byte_data, header_content, out_file, exit_status>>

\* byte_data = convert_image_to_format(image, format_name)
ConvertOk ==
    /\ pc = "gch_convert"
    /\ LET res == convert_image_to_format(image, format_name)
       IN  IF res.raised = "none"
           THEN /\ byte_data' = res.byte_data
                /\ pc' = "gch_render"
                /\ UNCHANGED error
           ELSE /\ Raise(res.raised)
                /\ UNCHANGED byte_data
    /\ UNCHANGED <<inputs, image_opened, header_content, out_file, exit_status>>

\* image.convert('RGBA') or np.array(image) cannot read the pixel data
ConvertDecodeFails ==
    /\ pc = "gch_convert"
    /\ Raise("ImageDecodeFailure")
    /\ UNCHANGED <<inputs, image_opened, byte_data, header_content, out_file, exit_status>>

\* The names and header_content; range() raises on a step of 0.
Render ==
    /\ pc = "gch_render"
    /\ IF image.size[1] * FORMATS[format_name].bytes_per_pixel = 0
       THEN /\ Raise("ValueError: range() arg 3 must not be zero")
            /\ UNCHANGED header_content
       ELSE /\ header_content' = RenderHeader(image, format_name, base_name, byte_data)
            /\ pc' = "gch_open_output"
            /\ UNCHANGED error
    /\ UNCHANGED <<inputs, image_opened, byte_data, out_file, exit_status>>

\* open(output_path, 'w') creates the file or truncates it
OpenOutputOk ==
    /\ pc = "gch_open_output"
    /\ out_file' = "truncated"
    /\ pc' = "gch_write"
    /\ UNCHANGED <<inputs, image_opened, byte_data, header_content, error, exit_status>>

OpenOutputFails ==
    /\ pc = "gch_open_output"
    /\ Raise("WriteFailure")
    /\ UNCHANGED <<inputs, image_opened, byte_data, header_content, out_file, exit_status>>

\* f.write(header_content) and the close of the with block
WriteOk ==
    /\ pc = "gch_write"
    /\ out_file' = "complete"
    /\ pc' = "gch_print"
    /\ UNCHANGED <<inputs, image_opened, byte_data, header_content, error, exit_status>>

\* The write or the flush fails: the file holds nothing or a part of the text.
WriteFails ==
    /\ pc = "gch_write"
    /\ out_file' \in {"truncated", "partial"}
    /\ Raise("WriteFailure")
    /\ UNCHANGED <<inputs, image_opened, byte_data, header_content, exit_status>>

\* the five print calls of the summary
PrintSummaryOk ==
    /\ pc = "gch_print"
    /\ pc' = "gch_return"
    /\ UNCHANGED <<inputs, image_opened, byte_data, header_content, out_file,
                   error, exit_status>>

\* a print raises (stdout closed, or its encoding has no U+2713)
PrintSummaryFails ==
    /\ pc = "gch_print"
    /\ Raise("PrintFailure")
    /\ UNCHANGED <<inputs, image_opened, byte_data, header_content, out_file, exit_status>>

\* except Exception as e: print(...); sys.exit(1).  When this print raises
\* too, the exception leaves main with a traceback on stderr and the
\* interpreter is left with status 1 as well.
Except ==
    /\ pc = "gch_except"
    /\ pc' = "py_exit"
    /\ exit_status' = "exit 1"
    /\ UNCHANGED <<inputs, image_opened, byte_data, header_content, out_file, error>>

\* generate_c_header returns to its caller; main returns after it and the
\* interpreter is left with status 0
Return ==
    /\ pc = "gch_return"
    /\ IF entry = "main"
       THEN pc' = "py_exit" /\ exit_status' = "exit 0"
       ELSE pc' = "done" /\ exit_status' = "returned"
    /\ UNCHANGED <<inputs, image_opened, byte_data, header_content, out_file, error>>

(***************************************************************************)
(* The interpreter's exit: it flushes stdout and stderr, and a flush that  *)
(* fails makes the status 120 whatever status was asked for.  Every run    *)
(* that gets here has written to one of the two: the summary or the        *)
(* diagnostic to stdout, argparse's message or a traceback to stderr.      *)
(***************************************************************************)
ExitFlushOk ==
    /\ pc = "py_exit"
    /\ pc' = "done"
    /\ UNCHANGED <<inputs, image_opened, byte_data, header_content, out_file,
                   error, exit_status>>

\* stdout or stderr cannot take its buffered text (a full device, a closed
\* pipe)
ExitFlushFails ==
    /\ pc = "py_exit"
    /\ pc' = "done"
    /\ exit_status' = "exit 120"
    /\ UNCHANGED <<inputs, image_opened, byte_data, header_content, out_file, error>>

(***************************************************************************)
(* convert_image_to_format called by another caller than generate_c_header *)
(***************************************************************************)
EnterConvert ==
    /\ entry = "convert_image_to_format" /\ pc = "start"
    /\ LET res == convert_image_to_format(image, format_name)
       IN  /\ byte_data' = res.byte_data
           /\ error' = res.raised
           /\ exit_status' = IF res.raised = "none" THEN "returned" ELSE "raised"
    /\ pc' = "done"
    /\ UNCHANGED <<inputs, image_opened, header_content, out_file>>

Next ==
    \/ MainParseArgs
    \/ MainInputNotFound
    \/ MainCallGenerate
    \/ EnterGenerate
    \/ OpenImageOk
    \/ OpenImageFails
    \/ LookupFormat
    \/ ConvertOk
    \/ ConvertDecodeFails
    \/ Render
    \/ OpenOutputOk
    \/ OpenOutputFails
    \/ WriteOk
    \/ WriteFails
    \/ PrintSummaryOk
    \/ PrintSummaryFails
    \/ Except
    \/ Return
    \/ ExitFlushOk
    \/ ExitFlushFails
    \/ EnterConvert

Spec == Init /\ [][Next]_vars

(***************************************************************************)
(* The encoder alone: convert_image_to_format applied to the images of     *)
(* Init and to one-pixel images in which one channel takes every value.    *)
(***************************************************************************)
ChannelProbe == {37, 255}

AxisPixels ==
    {<<c, p, q, t>> : c \in 0..255, p \in ChannelProbe, q \in ChannelProbe, t \in {255}}
    \cup {<<p, c, q, t>> : c \in 0..255, p \in ChannelProbe, q \in ChannelProbe, t \in {255}}
    \cup {<<p, q, c, t>> : c \in 0..255, p \in ChannelProbe, q \in ChannelProbe, t \in {255}}
    \cup {<<p, q, t, c>> : c \in 0..255, p \in ChannelProbe, q \in ChannelProbe, t \in {129}}

InitEncode ==
    /\ entry = "convert_image_to_format"
    /\ pc = "start"
    /\ image \in Images \cup Grids(1, 1, AxisPixels)
    /\ format_name \in FormatArgs
    /\ base_name \in SampleNames
    /\ image_opened = FALSE
    /\ byte_data = <<>>
    /\ header_content = EmptyHeader
    /\ out_file = "absent"
    /\ error = "none"
    /\ exit_status = "running"

SpecEncode == InitEncode /\ [][EnterConvert]_vars

(***************************************************************************)
(* The sanitizer alone: lines 216-218 applied to names over NameAlphabet.  *)
(***************************************************************************)
\* a Z - space _ . 1, U+00DF (sharp s) and U+0130 (capital I with dot above)
NameAlphabet == {97, 90, 45, 32, 95, 46, 49, 223, 304}

Names == UNION {[1..n -> NameAlphabet] : n \in 1..MaxNameLen}

InitSanitize ==
    /\ entry = "generate_c_header"
    /\ pc = "gch_sanitize"
    /\ image \in Grids(1, 1, {<<17, 34, 51, 68>>})
    /\ format_name = "bgr565"
    /\ base_name \in Names
    /\ image_opened = TRUE
    /\ byte_data = <<>>
    /\ header_content = EmptyHeader
    /\ out_file = "absent"
    /\ error = "none"
    /\ exit_status = "running"

SanitizeName ==
    /\ pc = "gch_sanitize"
    /\ header_content' = [header_content EXCEPT
                             !.macro_prefix = Sanitize(base_name).macro_prefix,
                             !.array_name   = Sanitize(base_name).array_name]
    /\ pc' = "gch_sanitized"
    /\ UNCHANGED <<inputs, image_opened, byte_data, out_file, error, exit_status>>

SpecSanitize == InitSanitize /\ [][SanitizeName]_vars

(***************************************************************************)
(* Properties.                                                             *)
(***************************************************************************)
Width == image.size[1]

Height == image.size[2]

\* byte_data holds what convert_image_to_format returned for image and
\* format_name.
Encoded ==
    /\ format_name \in FormatNames
    /\ \/ pc \in {"gch_render", "gch_open_output", "gch_write", "gch_print", "gch_return"}
       \/ entry = "convert_image_to_format" /\ pc = "done"

\* The pixel at row y, column x (both from 0), and its index in row-major order.
PixelAt(x, y) == image.pixels[y + 1][x + 1]

Index(x, y) == y * Width + x

Positions == {<<x, y>> : x \in 0..(Width - 1), y \in 0..(Height - 1)}

\* bytesPerPixel as the specification lists it
SpecBytesPerPixel(f) ==
    IF f \in {"rgb565", "bgr565"} THEN 2
    ELSE IF f \in {"argb8888", "rgba8888"} THEN 4
    ELSE 3

\* byte_data[k], counting from 0
Byte(k) == byte_data[k + 1]

\* C1: for every format of the registry and every image of width w >= 1 and
\* height h >= 1, the encoder returns exactly w * h * bytesPerPixel(format)
\* bytes, bytesPerPixel being the registry's value: 2, 2, 4, 4, 3, 3.
C1_EncodedLength ==
    Encoded =>
        /\ FORMATS[format_name].bytes_per_pixel = SpecBytesPerPixel(format_name)
        /\ Len(byte_data) = Width * Height * FORMATS[format_name].bytes_per_pixel

C1_Witness ==
    /\ Encoded
    /\ format_name = "rgb888"
    /\ Width = 2 /\ Height = 2
    /\ Len(byte_data) = 12

\* The 16-bit word of rgb565, by arithmetic.
Word565(hi, g, lo) == (hi \div 8) * 2048 + (g \div 4) * 32 + (lo \div 8)

\* C2: in format rgb565 the pixel at row y, column x is encoded at positions
\* 2*(y*width + x) and 2*(y*width + x) + 1 as the low byte and then the high
\* byte of ((R>>3)<<11) | ((G>>2)<<5) | (B>>3), whatever A is.
C2_Rgb565LittleEndianRowMajor ==
    (Encoded /\ format_name = "rgb565") =>
        \A p \in Positions :
            LET px   == PixelAt(p[1], p[2])
                k    == Index(p[1], p[2])
                word == Word565(px[1], px[2], px[3])
            IN  /\ 2 * k + 2 <= Len(byte_data)
                /\ Byte(2 * k) = word % 256
                /\ Byte(2 * k + 1) = word \div 256

\* A 2x2 image whose second row starts with another pixel than the first
\* row ends with.
C2_Witness ==
    /\ Encoded /\ format_name = "rgb565"
    /\ Width = 2 /\ Height = 2
    /\ PixelAt(0, 0) = <<255, 0, 0, 255>>
    /\ PixelAt(1, 0) = <<255, 0, 0, 255>>
    /\ PixelAt(0, 1) = <<0, 255, 0, 128>>
    /\ byte_data = <<0, 248, 0, 248, 224, 7, 0, 248>>

\* C3: reassembling the word from the two bytes (second * 256 + first) and
\* taking its fields apart recovers (R>>3)<<3, (G>>2)<<2 and (B>>3)<<3: red
\* in bits 15..11 and blue in bits 4..0 for rgb565, blue in bits 15..11 and
\* red in bits 4..0 for bgr565, green in bits 10..5 for both.
C3_RoundTrip565 ==
    (Encoded /\ format_name \in {"rgb565", "bgr565"}) =>
        \A p \in Positions :
            LET px   == PixelAt(p[1], p[2])
                k    == Index(p[1], p[2])
                word == Byte(2 * k + 1) * 256 + Byte(2 * k)
                top  == word \div 2048
                mid  == (word \div 32) % 64
                low  == word % 32
                r    == (px[1] \div 8) * 8
                g    == (px[2] \div 4) * 4
                b    == (px[3] \div 8) * 8
            IN  /\ mid * 4 = g
                /\ format_name = "rgb565" => (top * 8 = r /\ low * 8 = b)
                /\ format_name = "bgr565" => (top * 8 = b /\ low * 8 = r)

C3_Witness ==
    /\ Encoded /\ format_name = "bgr565"
    /\ Width = 1 /\ Height = 1
    /\ PixelAt(0, 0) = <<37, 255, 203, 255>>
    /\ byte_data = <<228, 207>>

\* C4: argb8888 emits A,R,G,B, rgba8888 R,G,B,A, rgb888 R,G,B and bgr888
\* B,G,R for the pixel of index k at positions bpp*k .. bpp*k + bpp - 1,
\* unchanged; the pixel (0x11,0x22,0x33,0x44) alone encodes to
\* [0x44,0x11,0x22,0x33], [0x11,0x22,0x33,0x44], [0x11,0x22,0x33] and
\* [0x33,0x22,0x11].
C4_ByteFormatsFieldOrder ==
    (Encoded /\ format_name \in {"argb8888", "rgba8888", "rgb888", "bgr888"}) =>
        /\ \A p \in Positions :
            LET px == PixelAt(p[1], p[2])
                k  == Index(p[1], p[2])
                R  == px[1]
                G  == px[2]
                B  == px[3]
                A  == px[4]
                expected ==
                    CASE format_name = "argb8888" -> <<A, R, G, B>>
                      [] format_name = "rgba8888" -> <<R, G, B, A>>
                      [] format_name = "rgb888"   -> <<R, G, B>>
                      [] format_name = "bgr888"   -> <<B, G, R>>
                n  == Len(expected)
            IN  /\ n * k + n <= Len(byte_data)
                /\ \A i \in 0..(n - 1) : Byte(n * k + i) = expected[i + 1]
        /\ image.pixels = << << <<17, 34, 51, 68>> >> >> =>
            byte_data = CASE format_name = "argb8888" -> <<68, 17, 34, 51>>
                          [] format_name = "rgba8888" -> <<17, 34, 51, 68>>
                          [] format_name = "rgb888"   -> <<17, 34, 51>>
                          [] format_name = "bgr888"   -> <<51, 34, 17>>

C4_Witness ==
    /\ Encoded /\ format_name = "argb8888"
    /\ image.pixels = << << <<17, 34, 51, 68>> >> >>
    /\ byte_data = <<68, 17, 34, 51>>

\* The image of the end-to-end scenario: 2x1, (255,0,0,255) then (0,255,0,128).
ScenarioImage ==
    [size |-> <<2, 1>>, pixels |-> << << <<255, 0, 0, 255>>, <<0, 255, 0, 128>> >> >>]

Rendered == pc \in {"gch_open_output", "gch_write", "gch_print", "gch_return"}

\* C5 as stated: the scenario image in rgb565 yields [0xE0,0xF8,0xE0,0x07]
\* and _IMG_PIXEL_DATA_SIZE evaluates to 4.
C5_ScenarioAsStated ==
    (Rendered /\ image = ScenarioImage /\ format_name = "rgb565") =>
        /\ byte_data = <<224, 248, 224, 7>>
        /\ IMG_PIXEL_DATA_SIZE(header_content) = 4

\* C5 amended: the scenario image in rgb565 yields [0x00,0xF8,0xE0,0x07] and
\* _IMG_PIXEL_DATA_SIZE evaluates to 4.
C5_Scenario ==
    (Rendered /\ image = ScenarioImage /\ format_name = "rgb565") =>
        /\ byte_data = <<0, 248, 224, 7>>
        /\ IMG_PIXEL_DATA_SIZE(header_content) = 4

C5_Witness ==
    /\ Rendered /\ image = ScenarioImage /\ format_name = "rgb565"
    /\ header_content.IMG_WIDTH = 2

(***************************************************************************)
(* Reading the array body back.                                            *)
(***************************************************************************)
\* The pieces of text between the occurrences of the code point c.
RECURSIVE SplitAt(_, _)
SplitAt(text, c) ==
    IF \A i \in 1..Len(text) : text[i] # c THEN <<text>>
    ELSE LET i == CHOOSE j \in 1..Len(text) :
                      text[j] = c /\ \A m \in 1..(j - 1) : text[m] # c
         IN  <<SubSeq(text, 1, i - 1)>> \o SplitAt(SubSeq(text, i + 1, Len(text)), c)

\* "0123456789ABCDEF"
HexChars == <<48, 49, 50, 51, 52, 53, 54, 55, 56, 57, 65, 66, 67, 68, 69, 70>>

\* The value of a token "0xHH" with upper-case digits, -1 for any other text.
TokenValue(tok) ==
    IF /\ Len(tok) = 4 /\ tok[1] = 48 /\ tok[2] = 120
       /\ \E d \in 1..16 : HexChars[d] = tok[3]
       /\ \E d \in 1..16 : HexChars[d] = tok[4]
    THEN 16 * ((CHOOSE d \in 1..16 : HexChars[d] = tok[3]) - 1)
         + (CHOOSE d \in 1..16 : HexChars[d] = tok[4]) - 1
    ELSE -1

\* The tokens of one line of the body: the line is four spaces and tokens
\* separated by ", "; <<-1>> for a line of another shape.
LineTokens(line) ==
    IF Len(line) < 8 \/ (Len(line) - 8) % 6 # 0 \/ SubSeq(line, 1, 4) # <<32, 32, 32, 32>>
    THEN <<-1>>
    ELSE LET n == (Len(line) - 8) \div 6 + 1
         IN  IF \A t \in 1..(n - 1) : SubSeq(line, 6 * t + 3, 6 * t + 4) = <<44, 32>>
             THEN [t \in 1..n |-> TokenValue(SubSeq(line, 6 * t - 1, 6 * t + 2))]
             ELSE <<-1>>

\* The lines of the body: it starts with a line break, and a line break
\* inside it follows the "," that ends a line.
BodyLines(body) ==
    LET segs == SplitAt(body, 10)
    IN  [j \in 1..(Len(segs) - 1) |->
            IF j < Len(segs) - 1
            THEN IF segs[j + 1] # <<>> /\ segs[j + 1][Len(segs[j + 1])] = 44
                 THEN SubSeq(segs[j + 1], 1, Len(segs[j + 1]) - 1)
                 ELSE <<>>
            ELSE segs[j + 1]]

\* C6: the array body is `height` lines of width * bytesPerPixel hex tokens
\* each; line j (from 0) holds the bytes j*stride .. (j+1)*stride - 1 in
\* order; lines are separated by ",\n" and nothing follows the last one.
C6_RowWrap ==
    (Rendered /\ format_name \in FormatNames) =>
        LET body   == header_content.body
            stride == Width * SpecBytesPerPixel(format_name)
            lines  == BodyLines(body)
        IN  /\ body # <<>> /\ body[1] = 10
            /\ Len(lines) = Height
            /\ \A j \in 0..(Height - 1) :
                LET toks == LineTokens(lines[j + 1])
                IN  /\ Len(toks) = stride
                    /\ \A t \in 0..(stride - 1) : toks[t + 1] = Byte(j * stride + t)

C6_Witness ==
    /\ Rendered /\ format_name = "rgb888"
    /\ Width = 1 /\ Height = 2
    /\ byte_data = <<255, 0, 0, 0, 255, 0>>
    /\ header_content.body =
           <<10, 32, 32, 32, 32, 48, 120, 70, 70, 44, 32, 48, 120, 48, 48, 44, 32,
             48, 120, 48, 48, 44,
             10, 32, 32, 32, 32, 48, 120, 48, 48, 44, 32, 48, 120, 70, 70, 44, 32,
             48, 120, 48, 48>>

\* The tokens of the whole body, line after line.
RECURSIVE ConcatTokens(_)
ConcatTokens(lines) ==
    IF lines = <<>> THEN <<>>
    ELSE LineTokens(Head(lines)) \o ConcatTokens(Tail(lines))

BodyTokens(body) == ConcatTokens(BodyLines(body))

IsAscii(s) == \A i \in 1..Len(s) : s[i] < 128

Sanitized == pc = "gch_sanitized"

\* The sanitizer's rule for one ASCII character.
UpperAscii(c) == IF c \in 97..122 THEN c - 32 ELSE c

LowerAscii(c) == IF c \in 65..90 THEN c + 32 ELSE c

Underscored(c) == IF c \in {45, 32} THEN 95 ELSE c

\* The relations C7 states between a name and its two identifiers.
SanitizeRelations ==
    LET m == header_content.macro_prefix
        a == header_content.array_name
    IN  /\ m = str_upper(a)
        /\ Sanitize(m) = [macro_prefix |-> m, array_name |-> a]
        /\ Sanitize(a) = [macro_prefix |-> m, array_name |-> a]
        /\ \A i \in 1..Len(m) : m[i] \notin {45, 32}
        /\ \A i \in 1..Len(a) : a[i] \notin {45, 32}

\* C7 as stated: for every raw name, macroPrefix equals arrayName
\* upper-cased, neither holds a '-' or a ' ', and sanitizing macroPrefix or
\* arrayName again returns the same pair.
C7_SanitizeAsStated == Sanitized => SanitizeRelations

\* C7 amended: for every raw name of ASCII characters, macroPrefix is the
\* name with letters upper-cased and arrayName the name with letters
\* lower-cased, '-' and ' ' replaced by '_' and every other character
\* unchanged; macroPrefix equals arrayName upper-cased and sanitizing either
\* again returns the same pair.
C7_SanitizeAscii ==
    (Sanitized /\ IsAscii(base_name)) =>
        LET m == header_content.macro_prefix
            a == header_content.array_name
        IN  /\ Len(m) = Len(base_name) /\ Len(a) = Len(base_name)
            /\ \A i \in 1..Len(base_name) :
                /\ m[i] = Underscored(UpperAscii(base_name[i]))
                /\ a[i] = Underscored(LowerAscii(base_name[i]))
            /\ SanitizeRelations

\* "a Z" becomes A_Z and a_z.
C7_Witness ==
    /\ Sanitized
    /\ base_name = <<97, 32, 90>>
    /\ header_content.macro_prefix = <<65, 95, 90>>
    /\ header_content.array_name = <<97, 95, 122>>

\* C8: a run of main ends either with the complete artifact at the output
\* path and exit status 0, or with a non-zero exit status and the output path
\* as it was before the run.
C8_NoPartialSuccess ==
    (entry = "main" /\ pc = "done") =>
        \/ exit_status = "exit 0" /\ out_file = "complete"
        \/ /\ exit_status \in {"exit 1", "exit 2", "exit 120"}
           /\ out_file \in {"absent", "previous"}

\* C9: with a format identifier outside the registry, on every entry path,
\* the image is never opened, nothing is encoded or written, and the run ends
\* with the unsupported-format error.
C9_UnsupportedFormatFirst ==
    format_name \notin FormatNames =>
        /\ ~image_opened
        /\ byte_data = <<>>
        /\ out_file \in {"absent", "previous"}
        /\ pc = "done" =>
              error \in {"ValueError: Unsupported format", "argparse: invalid choice"}

====
